---- MODULE Spec2Model ----
(***************************************************************************)
(* The Caliper CUPTI service (src/src/services/cupti/Cupti.cpp): the       *)
(* callback router cupti_callback, its per-domain handlers, the            *)
(* subscription / domain enablement done at service initialization, and    *)
(* the post-init and finish hooks.                                         *)
(*                                                                         *)
(* Every handler is translated to an operator that yields the ordered list *)
(* of calls the handler makes (counter increments, sampling-controller     *)
(* calls, host calls); Exec carries such a list out on the state.          *)
(***************************************************************************)
EXTENDS Integers, Sequences, FiniteSets, TLC

VARIABLES
    config,          \* the "cupti" ConfigSet the host hands to the service
    phase,           \* "loaded", "initialized", "post_init", "finished"
    vendor,          \* CUPTI side: subscription and enabled callback domains
    cb_domain_names, \* the token list register_callback_domains iterates
    warned,          \* tokens reported as "Unknown callback domain" at Log(0)
    hooks,           \* host events this service connected a callback to
    cupti_info,      \* CuptiServiceInfo
    counters,        \* num_cb, num_api_cb, num_resource_cb, num_sync_cb, num_nvtx_cb
    event_sampling,  \* Cupti::EventSampling
    host,            \* the calling thread's blackboard in the host
    apistack,        \* vendor side: API calls entered and not yet exited
    trace,           \* the calls made by the most recent callback / hook
    lastCb,          \* the arguments of the most recent cupti_callback
    nInvoked,        \* number of cupti_callback invocations begun
    pc,              \* per thread: position inside cupti_callback
    reg,             \* per thread: the value loaded by a pending ++counter
    cur              \* per thread: the domain of the callback in progress

vars == << config, phase, vendor, cb_domain_names, warned, hooks, cupti_info,
           counters, event_sampling, host, apistack, trace, lastCb, nInvoked,
           pc, reg, cur >>

-----------------------------------------------------------------------------
(* Bounds *)

MaxCb     == 4   \* callbacks delivered in one run
MaxDepth  == 2   \* API calls / markers open at once
MaxTokens == 2   \* tokens in callback_domains (startup specification)

-----------------------------------------------------------------------------
(* Vendor constants and small input sets *)

RUNTIME_API == "CUPTI_CB_DOMAIN_RUNTIME_API"
DRIVER_API  == "CUPTI_CB_DOMAIN_DRIVER_API"
RESOURCE    == "CUPTI_CB_DOMAIN_RESOURCE"
SYNCHRONIZE == "CUPTI_CB_DOMAIN_SYNCHRONIZE"
NVTX        == "CUPTI_CB_DOMAIN_NVTX"
INVALID     == "CUPTI_CB_DOMAIN_INVALID"
OTHER_DOMAIN == "CUPTI_CB_DOMAIN_SIZE"   \* a tag the router has no case for

KnownDomains == { RUNTIME_API, DRIVER_API, RESOURCE, SYNCHRONIZE, NVTX }

Contexts == { 1, 2 }
Streams  == { 7 }
Threads  == { 1, 2 }

\* C strings are sequences of characters, so that strlen is computed.
NULL == << >>
FunctionNames == [ rt |-> << "c","u","d","a","L" >>, drv |-> << "c","u","L" >> ]
SymbolNames   == { NULL, << "k","e","r","n" >> }
Messages      == { << "m","s","g" >> }

strlen(s) == Len(s)

\* Outcomes of the id-resolution calls of one callback: all succeed, or the
\* first failing one is the device, the context or the stream query.
IdResults ==
    { [device |-> TRUE,  context |-> TRUE,  stream |-> TRUE ],
      [device |-> FALSE, context |-> TRUE,  stream |-> TRUE ],
      [device |-> TRUE,  context |-> FALSE, stream |-> TRUE ],
      [device |-> TRUE,  context |-> TRUE,  stream |-> FALSE] }

AllOk == [device |-> TRUE, context |-> TRUE, stream |-> TRUE]

\* uint32 ids the vendor resolves from its opaque handles
DeviceIdOf(context)  == 0
ContextIdOf(context) == context
StreamIdOf(stream)   == stream

Tokens == { "runtime", "driver", "resource", "sync", "nvtx", "none", "bogus" }

-----------------------------------------------------------------------------
(* Calls a handler can make.  A handler is the ordered list of its calls. *)

Inc(counter)            == [op |-> "inc", counter |-> counter]
EnableSampling(context) == [op |-> "enable_sampling_for_context", context |-> context]
DisableSampling(context) == [op |-> "disable_sampling_for_context", context |-> context]
PushSnapshot(rec)       == [op |-> "push_snapshot", rec |-> rec]
Set(attr, val)          == [op |-> "set", attr |-> attr, val |-> val]
Begin(attr, val)        == [op |-> "begin", attr |-> attr, val |-> val]
End(attr)               == [op |-> "end", attr |-> attr]
LogMsg(level, what)     == [op |-> "log", level |-> level, what |-> what]
PrintStatistics         == [op |-> "print_statistics"]
StopAll                 == [op |-> "stop_all"]
Unsubscribe             == [op |-> "cuptiUnsubscribe"]
Finalize                == [op |-> "cuptiFinalize"]
CreateAttribute(name)   == [op |-> "create_attribute", name |-> name]

\* Variant(CALI_TYPE_STRING, data, size) and Variant(uint64_t)
StringVariant(data, size) == [type |-> "string", data |-> data, size |-> size]
UIntVariant(v)            == [type |-> "uint", data |-> v, size |-> 8]

Pair(attr, val) == [attr |-> attr, val |-> val]

InvalidAttr == "Attribute::invalid"

-----------------------------------------------------------------------------
(* Callback ids and sites *)

CONTEXT_CREATED          == "CUPTI_CBID_RESOURCE_CONTEXT_CREATED"
CONTEXT_DESTROY_STARTING == "CUPTI_CBID_RESOURCE_CONTEXT_DESTROY_STARTING"
STREAM_CREATED           == "CUPTI_CBID_RESOURCE_STREAM_CREATED"
STREAM_DESTROY_STARTING  == "CUPTI_CBID_RESOURCE_STREAM_DESTROY_STARTING"
MODULE_LOADED            == "CUPTI_CBID_RESOURCE_MODULE_LOADED"
STREAM_SYNCHRONIZED      == "CUPTI_CBID_SYNCHRONIZE_STREAM_SYNCHRONIZED"
CONTEXT_SYNCHRONIZED     == "CUPTI_CBID_SYNCHRONIZE_CONTEXT_SYNCHRONIZED"
SYNC_INVALID             == "CUPTI_CBID_SYNCHRONIZE_INVALID"
RangePushA               == "CUPTI_CBID_NVTX_nvtxRangePushA"
RangePushEx              == "CUPTI_CBID_NVTX_nvtxRangePushEx"
RangePop                 == "CUPTI_CBID_NVTX_nvtxRangePop"
DomainRangePushEx        == "CUPTI_CBID_NVTX_nvtxDomainRangePushEx"
DomainRangePop           == "CUPTI_CBID_NVTX_nvtxDomainRangePop"
MarkA                    == "CUPTI_CBID_NVTX_nvtxMarkA"
API_CBID                 == "CUPTI_API_CBID"

API_ENTER == "CUPTI_API_ENTER"
API_EXIT  == "CUPTI_API_EXIT"

ResourceCbids == { CONTEXT_CREATED, CONTEXT_DESTROY_STARTING, STREAM_CREATED,
                   STREAM_DESTROY_STARTING, MODULE_LOADED }
SyncCbids     == { STREAM_SYNCHRONIZED, CONTEXT_SYNCHRONIZED, SYNC_INVALID }
NvtxPushCbids == { RangePushA, RangePushEx, DomainRangePushEx }
NvtxPopCbids  == { RangePop, DomainRangePop }
NvtxCbids     == NvtxPushCbids \cup NvtxPopCbids \cup { MarkA }

-----------------------------------------------------------------------------
(* Domain handlers *)

\* handle_stream_event without the check of cuptiGetStreamId's result
handle_stream_event_NoStreamCheck(ids, context, stream, name_attr, v_name) ==
    IF ~ids.device THEN << >>
    ELSE IF ~ids.context THEN << >>
    ELSE << PushSnapshot(<< Pair(cupti_info.device_attr,  UIntVariant(DeviceIdOf(context))),
                            Pair(cupti_info.context_attr, UIntVariant(ContextIdOf(context))),
                            Pair(cupti_info.stream_attr,
                                 UIntVariant(IF ids.stream THEN StreamIdOf(stream) ELSE 0)),
                            Pair(name_attr, v_name) >>) >>

handle_stream_event(ids, context, stream, name_attr, v_name) ==
    IF ~ids.device THEN << >>
    ELSE IF ~ids.context THEN << >>
    ELSE IF ~ids.stream THEN << >>
    ELSE << PushSnapshot(<< Pair(cupti_info.device_attr,  UIntVariant(DeviceIdOf(context))),
                            Pair(cupti_info.context_attr, UIntVariant(ContextIdOf(context))),
                            Pair(cupti_info.stream_attr,  UIntVariant(StreamIdOf(stream))),
                            Pair(name_attr, v_name) >>) >>

handle_context_event(ids, context, name_attr, v_name) ==
    IF ~ids.device THEN << >>
    ELSE IF ~ids.context THEN << >>
    ELSE << PushSnapshot(<< Pair(cupti_info.device_attr,  UIntVariant(DeviceIdOf(context))),
                            Pair(cupti_info.context_attr, UIntVariant(ContextIdOf(context))),
                            Pair(name_attr, v_name) >>) >>

\* handle_resource that reaches the sampling controller only when the device
\* and context ids resolve
handle_resource_SampleAfterResolution(cbid, cbInfo) ==
    << Inc("num_resource_cb") >> \o
    CASE cbid = CONTEXT_CREATED ->
            (IF event_sampling.enabled /\ cbInfo.ids.device /\ cbInfo.ids.context
                THEN << EnableSampling(cbInfo.context) >> ELSE << >>)
            \o handle_context_event(cbInfo.ids, cbInfo.context, cupti_info.resource_attr,
                                    StringVariant("create_context", 15))
      [] cbid = CONTEXT_DESTROY_STARTING ->
            (IF event_sampling.enabled /\ cbInfo.ids.device /\ cbInfo.ids.context
                THEN << DisableSampling(cbInfo.context) >> ELSE << >>)
            \o handle_context_event(cbInfo.ids, cbInfo.context, cupti_info.resource_attr,
                                    StringVariant("destroy_context", 16))
      [] cbid = STREAM_CREATED ->
            handle_stream_event(cbInfo.ids, cbInfo.context, cbInfo.stream,
                                cupti_info.resource_attr,
                                StringVariant("create_stream", 14))
      [] cbid = STREAM_DESTROY_STARTING ->
            handle_stream_event(cbInfo.ids, cbInfo.context, cbInfo.stream,
                                cupti_info.resource_attr,
                                StringVariant("destroy_stream", 15))
      [] OTHER -> << >>

\* handle_resource with the context-created record pushed before sampling is enabled
handle_resource_RecordBeforeEnable(cbid, cbInfo) ==
    << Inc("num_resource_cb") >> \o
    CASE cbid = CONTEXT_CREATED ->
            handle_context_event(cbInfo.ids, cbInfo.context, cupti_info.resource_attr,
                                 StringVariant("create_context", 15))
            \o (IF event_sampling.enabled
                   THEN << EnableSampling(cbInfo.context) >> ELSE << >>)
      [] cbid = CONTEXT_DESTROY_STARTING ->
            (IF event_sampling.enabled
                THEN << DisableSampling(cbInfo.context) >> ELSE << >>)
            \o handle_context_event(cbInfo.ids, cbInfo.context, cupti_info.resource_attr,
                                    StringVariant("destroy_context", 16))
      [] cbid = STREAM_CREATED ->
            handle_stream_event(cbInfo.ids, cbInfo.context, cbInfo.stream,
                                cupti_info.resource_attr,
                                StringVariant("create_stream", 14))
      [] cbid = STREAM_DESTROY_STARTING ->
            handle_stream_event(cbInfo.ids, cbInfo.context, cbInfo.stream,
                                cupti_info.resource_attr,
                                StringVariant("destroy_stream", 15))
      [] OTHER -> << >>

\* handle_resource whose destroy branch never reaches the sampling controller
handle_resource_NoDisableOnDestroy(cbid, cbInfo) ==
    << Inc("num_resource_cb") >> \o
    CASE cbid = CONTEXT_CREATED ->
            (IF event_sampling.enabled
                THEN << EnableSampling(cbInfo.context) >> ELSE << >>)
            \o handle_context_event(cbInfo.ids, cbInfo.context, cupti_info.resource_attr,
                                    StringVariant("create_context", 15))
      [] cbid = CONTEXT_DESTROY_STARTING ->
            handle_context_event(cbInfo.ids, cbInfo.context, cupti_info.resource_attr,
                                 StringVariant("destroy_context", 16))
      [] cbid = STREAM_CREATED ->
            handle_stream_event(cbInfo.ids, cbInfo.context, cbInfo.stream,
                                cupti_info.resource_attr,
                                StringVariant("create_stream", 14))
      [] cbid = STREAM_DESTROY_STARTING ->
            handle_stream_event(cbInfo.ids, cbInfo.context, cbInfo.stream,
                                cupti_info.resource_attr,
                                StringVariant("destroy_stream", 15))
      [] OTHER -> << >>

handle_resource(cbid, cbInfo) ==
    << Inc("num_resource_cb") >> \o
    CASE cbid = CONTEXT_CREATED ->
            (IF event_sampling.enabled
                THEN << EnableSampling(cbInfo.context) >> ELSE << >>)
            \o handle_context_event(cbInfo.ids, cbInfo.context, cupti_info.resource_attr,
                                    StringVariant("create_context", 15))
      [] cbid = CONTEXT_DESTROY_STARTING ->
            (IF event_sampling.enabled
                THEN << DisableSampling(cbInfo.context) >> ELSE << >>)
            \o handle_context_event(cbInfo.ids, cbInfo.context, cupti_info.resource_attr,
                                    StringVariant("destroy_context", 16))
      [] cbid = STREAM_CREATED ->
            handle_stream_event(cbInfo.ids, cbInfo.context, cbInfo.stream,
                                cupti_info.resource_attr,
                                StringVariant("create_stream", 14))
      [] cbid = STREAM_DESTROY_STARTING ->
            handle_stream_event(cbInfo.ids, cbInfo.context, cbInfo.stream,
                                cupti_info.resource_attr,
                                StringVariant("destroy_stream", 15))
      [] OTHER -> << >>

handle_synchronize(cbid, cbInfo) ==
    << Inc("num_sync_cb") >> \o
    CASE cbid = STREAM_SYNCHRONIZED ->
            handle_stream_event(cbInfo.ids, cbInfo.context, cbInfo.stream,
                                cupti_info.sync_attr, StringVariant("stream", 7))
      [] cbid = CONTEXT_SYNCHRONIZED ->
            handle_context_event(cbInfo.ids, cbInfo.context,
                                 cupti_info.sync_attr, StringVariant("context", 8))
      [] OTHER -> << >>

ApiEnterCalls(cbInfo, attr) ==
    (IF cupti_info.record_symbol /\ cbInfo.symbolName # NULL
        THEN << Set(cupti_info.symbol_attr,
                    StringVariant(cbInfo.symbolName, strlen(cbInfo.symbolName))) >>
        ELSE << >>)
    \o << Begin(attr, StringVariant(cbInfo.functionName, strlen(cbInfo.functionName))) >>

ApiExitCalls(cbInfo, attr) ==
    << End(attr) >>
    \o (IF cupti_info.record_symbol /\ cbInfo.symbolName # NULL
           THEN << End(cupti_info.symbol_attr) >> ELSE << >>)

\* handle_callback that ends only the symbol attribute when a symbol is present
handle_callback_MissingEnd(cbid, cbInfo, attr) ==
    << Inc("num_api_cb") >> \o
    IF cbInfo.callbackSite = API_ENTER THEN ApiEnterCalls(cbInfo, attr)
    ELSE IF cbInfo.callbackSite = API_EXIT
    THEN (IF cupti_info.record_symbol /\ cbInfo.symbolName # NULL
             THEN << End(cupti_info.symbol_attr) >> ELSE << End(attr) >>)
    ELSE << >>

\* handle_callback that begins the function scope before setting the symbol
handle_callback_BeginBeforeSet(cbid, cbInfo, attr) ==
    << Inc("num_api_cb") >> \o
    IF cbInfo.callbackSite = API_ENTER
    THEN << Begin(attr, StringVariant(cbInfo.functionName,
                                      strlen(cbInfo.functionName))) >>
         \o (IF cupti_info.record_symbol /\ cbInfo.symbolName # NULL
                THEN << Set(cupti_info.symbol_attr,
                            StringVariant(cbInfo.symbolName, strlen(cbInfo.symbolName))) >>
                ELSE << >>)
    ELSE IF cbInfo.callbackSite = API_EXIT THEN ApiExitCalls(cbInfo, attr)
    ELSE << >>

\* handle_callback that ends the symbol attribute before the function scope
handle_callback_SymbolEndFirst(cbid, cbInfo, attr) ==
    << Inc("num_api_cb") >> \o
    IF cbInfo.callbackSite = API_ENTER THEN ApiEnterCalls(cbInfo, attr)
    ELSE IF cbInfo.callbackSite = API_EXIT
    THEN (IF cupti_info.record_symbol /\ cbInfo.symbolName # NULL
             THEN << End(cupti_info.symbol_attr) >> ELSE << >>)
         \o << End(attr) >>
    ELSE << >>

\* handle_callback with the commented-out context-id block (276-283) compiled in
handle_callback_RecordContext(cbid, cbInfo, attr) ==
    << Inc("num_api_cb") >> \o
    (IF cupti_info.record_context
        THEN << Set(cupti_info.context_attr, UIntVariant(1)) >> ELSE << >>) \o
    (IF cbInfo.callbackSite = API_ENTER THEN ApiEnterCalls(cbInfo, attr)
     ELSE IF cbInfo.callbackSite = API_EXIT THEN ApiExitCalls(cbInfo, attr)
     ELSE << >>)

handle_callback(cbid, cbInfo, attr) ==
    << Inc("num_api_cb") >> \o
    IF cbInfo.callbackSite = API_ENTER
    THEN (IF cupti_info.record_symbol /\ cbInfo.symbolName # NULL
             THEN << Set(cupti_info.symbol_attr,
                         StringVariant(cbInfo.symbolName, strlen(cbInfo.symbolName))) >>
             ELSE << >>)
         \o << Begin(attr, StringVariant(cbInfo.functionName,
                                         strlen(cbInfo.functionName))) >>
    ELSE IF cbInfo.callbackSite = API_EXIT
    THEN << End(attr) >>
         \o (IF cupti_info.record_symbol /\ cbInfo.symbolName # NULL
                THEN << End(cupti_info.symbol_attr) >> ELSE << >>)
    ELSE << >>

\* handle_nvtx with a separate attribute for the domain-scoped variants
handle_nvtx_DomainAttribute(cbid, cbInfo) ==
    << Inc("num_nvtx_cb") >> \o
    CASE cbid \in { RangePushA, RangePushEx } ->
            << Begin(cupti_info.nvtx_range_attr,
                     StringVariant(cbInfo.message, strlen(cbInfo.message) + 1)) >>
      [] cbid = RangePop ->
            << End(cupti_info.nvtx_range_attr) >>
      [] cbid = DomainRangePushEx ->
            << Begin("nvtx.domain.range",
                     StringVariant(cbInfo.message, strlen(cbInfo.message) + 1)) >>
      [] cbid = DomainRangePop ->
            << End("nvtx.domain.range") >>
      [] OTHER -> << >>

\* handle_nvtx whose domain-scoped push stores the text without its terminator
handle_nvtx_DomainPushNoTerminator(cbid, cbInfo) ==
    << Inc("num_nvtx_cb") >> \o
    CASE cbid \in { RangePushA, RangePushEx } ->
            << Begin(cupti_info.nvtx_range_attr,
                     StringVariant(cbInfo.message, strlen(cbInfo.message) + 1)) >>
      [] cbid = DomainRangePushEx ->
            << Begin(cupti_info.nvtx_range_attr,
                     StringVariant(cbInfo.message, strlen(cbInfo.message))) >>
      [] cbid \in { RangePop, DomainRangePop } ->
            << End(cupti_info.nvtx_range_attr) >>
      [] OTHER -> << >>

handle_nvtx(cbid, cbInfo) ==
    << Inc("num_nvtx_cb") >> \o
    CASE cbid = RangePushA ->
            << Begin(cupti_info.nvtx_range_attr,
                     StringVariant(cbInfo.message, strlen(cbInfo.message) + 1)) >>
      [] cbid = RangePushEx ->
            << Begin(cupti_info.nvtx_range_attr,
                     StringVariant(cbInfo.message, strlen(cbInfo.message) + 1)) >>
      [] cbid = RangePop ->
            << End(cupti_info.nvtx_range_attr) >>
      [] cbid = DomainRangePushEx ->
            << Begin(cupti_info.nvtx_range_attr,
                     StringVariant(cbInfo.message, strlen(cbInfo.message) + 1)) >>
      [] cbid = DomainRangePop ->
            << End(cupti_info.nvtx_range_attr) >>
      [] OTHER -> << >>

\* cupti_callback with the break after the resource case missing
cupti_callback_Fallthrough(domain, cbid, cbInfo) ==
    << Inc("num_cb") >> \o
    CASE domain = RESOURCE    -> handle_resource(cbid, cbInfo)
                                 \o handle_synchronize(cbid, cbInfo)
      [] domain = SYNCHRONIZE -> handle_synchronize(cbid, cbInfo)
      [] domain = RUNTIME_API -> handle_callback(cbid, cbInfo, cupti_info.runtime_attr)
      [] domain = DRIVER_API  -> handle_callback(cbid, cbInfo, cupti_info.driver_attr)
      [] domain = NVTX        -> handle_nvtx(cbid, cbInfo)
      [] OTHER -> << LogMsg(2, "Unknown callback domain") >>

(* The callback router: the calls of one invocation, in order. *)
cupti_callback(domain, cbid, cbInfo) ==
    << Inc("num_cb") >> \o
    CASE domain = RESOURCE    -> handle_resource(cbid, cbInfo)
      [] domain = SYNCHRONIZE -> handle_synchronize(cbid, cbInfo)
      [] domain = RUNTIME_API -> handle_callback(cbid, cbInfo, cupti_info.runtime_attr)
      [] domain = DRIVER_API  -> handle_callback(cbid, cbInfo, cupti_info.driver_attr)
      [] domain = NVTX        -> handle_nvtx(cbid, cbInfo)
      [] OTHER -> << LogMsg(2, "Unknown callback domain") >>

-----------------------------------------------------------------------------
(* Carrying out calls.  The host blackboard and the sampling controller    *)
(* are external to Cupti.cpp; they follow the interface contract.          *)

RECURSIVE LastIndexOf(_, _, _)
LastIndexOf(entries, attr, i) ==
    IF i = 0 THEN 0
    ELSE IF entries[i].attr = attr THEN i
    ELSE LastIndexOf(entries, attr, i - 1)

RemoveAt(seq, i) == SubSeq(seq, 1, i - 1) \o SubSeq(seq, i + 1, Len(seq))

\* Caliper::begin: open a scope for attr on the calling thread's blackboard.
\* The host refuses every operation on an attribute key that does not exist.
HostBegin(h, attr, val) ==
    IF attr = InvalidAttr THEN h
    ELSE [h EXCEPT !.entries = Append(@, [attr |-> attr, val |-> val, by |-> "begin"])]

\* Caliper::set: replace attr's current value, or create it
HostSet(h, attr, val) ==
    LET i == LastIndexOf(h.entries, attr, Len(h.entries))
    IN  IF attr = InvalidAttr THEN h
        ELSE IF i = 0
        THEN [h EXCEPT !.entries = Append(@, [attr |-> attr, val |-> val, by |-> "set"])]
        ELSE [h EXCEPT !.entries[i].val = val]

\* Caliper::end: close attr's innermost open scope / remove its value
HostEnd(h, attr) ==
    LET i == LastIndexOf(h.entries, attr, Len(h.entries))
    IN  IF attr = InvalidAttr THEN h
        ELSE IF i = 0
        THEN [h EXCEPT !.unmatched = @ + 1]
        ELSE [h EXCEPT !.entries = RemoveAt(@, i)]

\* st = [counters, event_sampling, host, vendor]
\* a controller whose enable and disable flip the flag instead of setting it
Exec1_ToggleMonitored(st, e) ==
    CASE e.op = "inc" ->
            [st EXCEPT !.counters[e.counter] = @ + 1]
      [] e.op \in { "enable_sampling_for_context", "disable_sampling_for_context" } ->
            [st EXCEPT !.event_sampling.monitored =
                          IF e.context \in @ THEN @ \ { e.context }
                                             ELSE @ \cup { e.context }]
      [] e.op = "stop_all" ->
            [st EXCEPT !.event_sampling.monitored = { },
                       !.event_sampling.stops = @ + 1]
      [] e.op = "begin" -> [st EXCEPT !.host = HostBegin(@, e.attr, e.val)]
      [] e.op = "set"   -> [st EXCEPT !.host = HostSet(@, e.attr, e.val)]
      [] e.op = "end"   -> [st EXCEPT !.host = HostEnd(@, e.attr)]
      [] e.op = "cuptiUnsubscribe" ->
            [st EXCEPT !.vendor = [subscribed |-> FALSE, enabled |-> { }]]
      [] OTHER -> st

Exec1(st, e) ==
    CASE e.op = "inc" ->
            [st EXCEPT !.counters[e.counter] = @ + 1]   \* MaxCb keeps it far from wrapping
      [] e.op = "enable_sampling_for_context" ->
            [st EXCEPT !.event_sampling.monitored = @ \cup { e.context }]
      [] e.op = "disable_sampling_for_context" ->
            [st EXCEPT !.event_sampling.monitored = @ \ { e.context }]
      [] e.op = "stop_all" ->
            [st EXCEPT !.event_sampling.monitored = { },
                       !.event_sampling.stops = @ + 1]
      [] e.op = "begin" -> [st EXCEPT !.host = HostBegin(@, e.attr, e.val)]
      [] e.op = "set"   -> [st EXCEPT !.host = HostSet(@, e.attr, e.val)]
      [] e.op = "end"   -> [st EXCEPT !.host = HostEnd(@, e.attr)]
      [] e.op = "cuptiUnsubscribe" ->
            [st EXCEPT !.vendor = [subscribed |-> FALSE, enabled |-> { }]]
      [] OTHER -> st      \* push_snapshot, log, print_statistics, cuptiFinalize

RECURSIVE Exec(_, _)
Exec(st, calls) ==
    IF calls = << >> THEN st ELSE Exec(Exec1(st, Head(calls)), Tail(calls))

Current == [counters |-> counters, event_sampling |-> event_sampling,
            host |-> host, vendor |-> vendor]

Run(calls) ==
    LET st == Exec(Current, calls)
    IN  /\ counters' = st.counters
        /\ event_sampling' = st.event_sampling
        /\ host' = st.host
        /\ vendor' = st.vendor
        /\ trace' = calls

-----------------------------------------------------------------------------
(* Startup: subscription and domain enablement *)

NoName == "(null)"

callback_domains ==
    << [domain |-> RUNTIME_API, name |-> "runtime" ],
       [domain |-> DRIVER_API,  name |-> "driver"  ],
       [domain |-> RESOURCE,    name |-> "resource"],
       [domain |-> SYNCHRONIZE, name |-> "sync"    ],
       [domain |-> NVTX,        name |-> "nvtx"    ],
       [domain |-> INVALID,     name |-> "none"    ],
       [domain |-> INVALID,     name |-> NoName    ] >>

\* for ( ; cbinfo->name && s != cbinfo->name; ++cbinfo) ;
RECURSIVE FindCbInfo(_, _)
FindCbInfo(s, i) ==
    IF callback_domains[i].name # NoName /\ s # callback_domains[i].name
    THEN FindCbInfo(s, i + 1)
    ELSE callback_domains[i]

Contains(seq, x) == \E i \in 1..Len(seq) : seq[i] = x

\* EnableStep that gives up at an unknown token instead of skipping it
EnableStep_AbortOnUnknown(r, s, failAt) ==
    LET cbinfo == FindCbInfo(s, 1)
    IN  IF cbinfo.name = NoName
        THEN [r EXCEPT !.warned = Append(@, s), !.ok = FALSE,
                       !.calls  = Append(@, LogMsg(0, "Unknown callback domain"))]
        ELSE IF cbinfo.domain # INVALID
        THEN IF r.ncalls + 1 = failAt
             THEN [r EXCEPT !.ncalls = @ + 1, !.ok = FALSE,
                            !.calls = @ \o << [op |-> "cuptiEnableDomain",
                                               domain |-> cbinfo.domain, ok |-> FALSE] >>]
             ELSE [r EXCEPT !.ncalls = @ + 1,
                            !.enabled = @ \cup { cbinfo.domain },
                            !.calls = @ \o << [op |-> "cuptiEnableDomain",
                                               domain |-> cbinfo.domain, ok |-> TRUE] >>]
        ELSE r

\* The loop over cb_domain_names.  r accumulates the result; r.ncalls counts
\* cuptiEnableDomain calls, and the failAt-th of them (0: none) fails.
EnableStep(r, s, failAt) ==
    LET cbinfo == FindCbInfo(s, 1)
    IN  IF cbinfo.name = NoName
        THEN [r EXCEPT !.warned = Append(@, s),
                       !.calls  = Append(@, LogMsg(0, "Unknown callback domain"))]
        ELSE IF cbinfo.domain # INVALID
        THEN IF r.ncalls + 1 = failAt
             THEN [r EXCEPT !.ncalls = @ + 1, !.ok = FALSE,
                            !.calls = @ \o << [op |-> "cuptiEnableDomain",
                                               domain |-> cbinfo.domain, ok |-> FALSE],
                                              LogMsg(0, "cuptiEnableDomain: error") >>]
             ELSE [r EXCEPT !.ncalls = @ + 1,
                            !.enabled = @ \cup { cbinfo.domain },
                            !.calls = @ \o << [op |-> "cuptiEnableDomain",
                                               domain |-> cbinfo.domain, ok |-> TRUE],
                                              LogMsg(2, "enabled callback domain") >>]
        ELSE r

\* EnableLoop that goes on with the next token after cuptiEnableDomain failed
RECURSIVE EnableLoop_ContinueAfterFailure(_, _, _, _)
EnableLoop_ContinueAfterFailure(r, names, i, failAt) ==
    IF i > Len(names) THEN r
    ELSE EnableLoop_ContinueAfterFailure(EnableStep(r, names[i], failAt),
                                         names, i + 1, failAt)

RECURSIVE EnableLoop(_, _, _, _)
EnableLoop(r, names, i, failAt) ==
    IF i > Len(names) \/ ~r.ok THEN r
    ELSE EnableLoop(EnableStep(r, names[i], failAt), names, i + 1, failAt)

\* EffectiveNames that leaves the configured list as it is
EffectiveNames_NoForce(names, sampling_enabled) == names

\* add "resource" domain when event sampling is enabled
EffectiveNames(names, sampling_enabled) ==
    IF sampling_enabled /\ ~Contains(names, "resource")
    THEN Append(names, "resource")
    ELSE names

\* subscribeOk, failAt: the vendor's answers.  Yields [ok, subscribed, names,
\* enabled, warned, ncalls, calls].
register_callback_domains(subscribeOk, failAt, sampling_enabled) ==
    IF ~subscribeOk
    THEN [ok |-> FALSE, subscribed |-> FALSE, names |-> << >>, enabled |-> { },
          warned |-> << >>, ncalls |-> 0,
          calls |-> << [op |-> "cuptiSubscribe", ok |-> FALSE],
                       LogMsg(0, "cuptiSubscribe: error") >>]
    ELSE LET names == EffectiveNames(config.callback_domains, sampling_enabled)
             r0 == [ok |-> TRUE, subscribed |-> TRUE, names |-> names,
                    enabled |-> { }, warned |-> << >>, ncalls |-> 0,
                    calls |-> << [op |-> "cuptiSubscribe", ok |-> TRUE] >>
                              \o (IF names # config.callback_domains
                                     THEN << LogMsg(1, "adding resource callback domain") >>
                                     ELSE << >>)]
         IN  EnableLoop(r0, names, 1, failAt)

ZeroCounters == [c \in { "num_cb", "num_api_cb", "num_resource_cb",
                         "num_sync_cb", "num_nvtx_cb" } |-> 0]

\* EventSampling::setup(c, event_id), reached only for sample_event_id > 0
SamplingSetup(es) == [es EXCEPT !.enabled = TRUE]

cuptiservice_initialize(subscribeOk, failAt) ==
    LET es == IF config.sample_event_id > 0
                 THEN SamplingSetup(event_sampling) ELSE event_sampling
        r  == register_callback_domains(subscribeOk, failAt, es.enabled)
    IN  /\ counters' = ZeroCounters
        /\ event_sampling' = es
        /\ vendor' = [subscribed |-> r.subscribed, enabled |-> r.enabled]
        /\ cb_domain_names' = r.names
        /\ warned' = r.warned
        /\ IF ~r.ok
           THEN /\ UNCHANGED << cupti_info, hooks >>
                /\ trace' = r.calls
           ELSE /\ cupti_info' = [cupti_info EXCEPT
                                    !.record_context = config.record_context,
                                    !.record_symbol  = config.record_symbol]
                /\ hooks' = (IF es.enabled THEN { "snapshot" } ELSE { })
                            \cup { "post_init", "finish" }
                /\ trace' = r.calls \o << LogMsg(1, "Registered cupti service") >>

AttributeNames ==
    [ runtime_attr    |-> "cupti.runtimeAPI",
      driver_attr     |-> "cupti.driverAPI",
      resource_attr   |-> "cupti.resource",
      sync_attr       |-> "cupti.sync",
      nvtx_range_attr |-> "nvtx.range",
      context_attr    |-> "cupti.contextID",
      symbol_attr     |-> "cupti.symbolName",
      device_attr     |-> "cupti.deviceID",
      stream_attr     |-> "cupti.streamID" ]

AttributeOrder == << "runtime_attr", "driver_attr", "resource_attr", "sync_attr",
                     "nvtx_range_attr", "context_attr", "symbol_attr",
                     "device_attr", "stream_attr" >>

post_init_cb ==
    /\ cupti_info' = [f \in DOMAIN cupti_info |->
                        IF f \in DOMAIN AttributeNames
                        THEN AttributeNames[f] ELSE cupti_info[f]]
    /\ trace' = [i \in 1..Len(AttributeOrder) |->
                    CreateAttribute(AttributeNames[AttributeOrder[i]])]

\* finish_cb that stops sampling only when sampling was set up
finish_cb_StopOnlyIfEnabled(verbosity) ==
    (IF verbosity >= 2
        THEN << LogMsg(2, "processed callbacks") >>
             \o (IF event_sampling.enabled THEN << PrintStatistics >> ELSE << >>)
        ELSE << >>)
    \o (IF event_sampling.enabled THEN << StopAll >> ELSE << >>)
    \o << Unsubscribe, Finalize >>

finish_cb(verbosity) ==
    (IF verbosity >= 2
        THEN << LogMsg(2, "processed callbacks") >>
             \o (IF event_sampling.enabled THEN << PrintStatistics >> ELSE << >>)
        ELSE << >>)
    \o << StopAll, Unsubscribe, Finalize >>

-----------------------------------------------------------------------------
(* Initial state: static storage as the loader leaves it, and a configuration *)

NoCb == [domain |-> "none", cbid |-> "none", cbInfo |-> [none |-> TRUE]]

ConfigOf(names, rs, rc, id) ==
    [callback_domains |-> names, record_symbol |-> rs,
     record_context |-> rc, sample_event_id |-> id]

SampleEventIds == { 0, 42 }

\* Configurations of the run-time specifications
RunConfigs ==
    { ConfigOf(<< "resource", "sync" >>, TRUE, TRUE, id) : id \in SampleEventIds }
    \cup { ConfigOf(<< "runtime", "driver", "nvtx" >>, rs, TRUE, 0) : rs \in BOOLEAN }

\* Configurations of the startup specification: every token list up to MaxTokens
TokenLists == UNION { [1..n -> Tokens] : n \in 0..MaxTokens }

StartupConfigs == { ConfigOf(n, rs, TRUE, id) :
                        n \in TokenLists, rs \in BOOLEAN, id \in SampleEventIds }

InitWith(configs) ==
    /\ config \in configs
    /\ phase = "loaded"
    /\ vendor = [subscribed |-> FALSE, enabled |-> { }]
    /\ cb_domain_names = << >>
    /\ warned = << >>
    /\ hooks = { }
    /\ cupti_info = [f \in DOMAIN AttributeNames \cup { "record_context", "record_symbol" } |->
                        IF f \in DOMAIN AttributeNames THEN InvalidAttr ELSE FALSE]
    /\ counters = ZeroCounters
    /\ event_sampling = [enabled |-> FALSE, monitored |-> { }, stops |-> 0]
    /\ host = [entries |-> << >>, unmatched |-> 0]
    /\ apistack = << >>
    /\ trace = << >>
    /\ lastCb = NoCb
    /\ nInvoked = 0
    /\ pc = [t \in Threads |-> "idle"]
    /\ reg = [t \in Threads |-> 0]
    /\ cur = [t \in Threads |-> "none"]

Init == InitWith(RunConfigs)

InitStartup == InitWith(StartupConfigs)

-----------------------------------------------------------------------------
(* Host lifecycle *)

Initialize ==
    /\ phase = "loaded"
    /\ \E subscribeOk \in BOOLEAN, failAt \in 0..(Len(config.callback_domains) + 1) :
            cuptiservice_initialize(subscribeOk, failAt)
    /\ phase' = "initialized"
    /\ lastCb' = NoCb
    /\ UNCHANGED << config, host, apistack, nInvoked, pc, reg, cur >>

AllIdle == \A t \in Threads : pc[t] = "idle"

\* The host fires post_init_evt once, from host code, after service initialization
PostInit ==
    /\ phase = "initialized"
    /\ "post_init" \in hooks
    /\ apistack = << >>
    /\ AllIdle
    /\ post_init_cb
    /\ phase' = "post_init"
    /\ lastCb' = NoCb
    /\ UNCHANGED << config, vendor, cb_domain_names, warned, hooks, counters,
                    event_sampling, host, apistack, nInvoked, pc, reg, cur >>

\* The host fires finish_evt once, from host code
Finish ==
    /\ phase = "post_init"
    /\ "finish" \in hooks
    /\ apistack = << >>
    /\ AllIdle
    /\ \E verbosity \in { 1, 2 } : Run(finish_cb(verbosity))
    /\ phase' = "finished"
    /\ lastCb' = NoCb
    /\ UNCHANGED << config, cb_domain_names, warned, hooks, cupti_info,
                    apistack, nInvoked, pc, reg, cur >>

-----------------------------------------------------------------------------
(* Callbacks delivered by the vendor, one invocation at a time *)

Deliverable(domain) ==
    /\ vendor.subscribed
    /\ domain \in vendor.enabled \/ domain \notin KnownDomains
    /\ nInvoked < MaxCb

Deliver(domain, cbid, cbInfo) ==
    /\ Deliverable(domain)
    /\ AllIdle
    /\ Run(cupti_callback(domain, cbid, cbInfo))
    /\ lastCb' = [domain |-> domain, cbid |-> cbid, cbInfo |-> cbInfo]
    /\ nInvoked' = nInvoked + 1
    /\ UNCHANGED << config, phase, cb_domain_names, warned, hooks, cupti_info,
                    pc, reg, cur >>

ResourceData(context, stream, ids) ==
    [context |-> context, stream |-> stream, ids |-> ids]

ResourceCallback ==
    \E cbid \in ResourceCbids, context \in Contexts, stream \in Streams, ids \in IdResults :
        /\ Deliver(RESOURCE, cbid, ResourceData(context, stream, ids))
        /\ UNCHANGED apistack

SyncCallback ==
    \E cbid \in SyncCbids, context \in Contexts, stream \in Streams, ids \in IdResults :
        /\ Deliver(SYNCHRONIZE, cbid, ResourceData(context, stream, ids))
        /\ UNCHANGED apistack

ApiData(site, call) ==
    [callbackSite |-> site, functionName |-> call.functionName,
     symbolName |-> call.symbolName]

FunctionNameOf(domain) ==
    IF domain = RUNTIME_API THEN FunctionNames.rt ELSE FunctionNames.drv

\* The application enters a runtime or driver API function
ApiEnter ==
    \E domain \in { RUNTIME_API, DRIVER_API }, symbolName \in SymbolNames :
        LET call == [domain |-> domain, functionName |-> FunctionNameOf(domain),
                     symbolName |-> symbolName]
        IN  /\ Len(apistack) < MaxDepth
            /\ Deliver(domain, API_CBID, ApiData(API_ENTER, call))
            /\ apistack' = Append(apistack, call)

\* The innermost entered API function returns
ApiExit ==
    /\ apistack # << >>
    /\ LET call == apistack[Len(apistack)]
       IN  /\ Deliver(call.domain, API_CBID, ApiData(API_EXIT, call))
           /\ apistack' = SubSeq(apistack, 1, Len(apistack) - 1)

NvtxCallback ==
    \E cbid \in NvtxCbids, message \in Messages :
        /\ cbid \in NvtxPushCbids => Len(host.entries) < 2 * MaxDepth
        /\ Deliver(NVTX, cbid, [message |-> message])
        /\ UNCHANGED apistack

UnknownCallback ==
    /\ Deliver(OTHER_DOMAIN, "none", [none |-> TRUE])
    /\ UNCHANGED apistack

Next ==
    \/ Initialize
    \/ PostInit
    \/ Finish
    \/ ResourceCallback
    \/ SyncCallback
    \/ ApiEnter
    \/ ApiExit
    \/ NvtxCallback
    \/ UnknownCallback

Spec == Init /\ [][Next]_vars

NextStartup ==
    \/ Initialize
    \/ PostInit
    \/ Finish

SpecStartup == InitStartup /\ [][NextStartup]_vars

\* API-call callbacks under both values of record_context
ContextConfigs == { ConfigOf(<< "runtime", "driver" >>, rs, rc, 0) :
                        rs \in BOOLEAN, rc \in BOOLEAN }

InitContext == InitWith(ContextConfigs)

NextContext ==
    \/ Initialize
    \/ PostInit
    \/ Finish
    \/ ApiEnter
    \/ ApiExit

SpecContext == InitContext /\ [][NextContext]_vars

-----------------------------------------------------------------------------
(* Concurrent invocations.  cupti_callback runs on whatever thread issued    *)
(* the GPU operation; the counters are plain `unsigned` globals, so each ++  *)
(* is a load followed by a store that other threads' accesses can separate.  *)
(* Only the shared counters are followed here.                               *)

CounterOf(domain) ==
    CASE domain = RESOURCE    -> "num_resource_cb"
      [] domain = SYNCHRONIZE -> "num_sync_cb"
      [] domain = RUNTIME_API -> "num_api_cb"
      [] domain = DRIVER_API  -> "num_api_cb"
      [] domain = NVTX        -> "num_nvtx_cb"
      [] OTHER                -> "none"

UnchangedButCounters ==
    UNCHANGED << config, phase, vendor, cb_domain_names, warned, hooks, cupti_info,
                 event_sampling, host, apistack, trace, lastCb >>

\* thread t enters cupti_callback and loads num_cb
CbLoadTotal(t) ==
    /\ pc[t] = "idle"
    /\ \E domain \in KnownDomains \cup { OTHER_DOMAIN } :
          /\ Deliverable(domain)
          /\ cur' = [cur EXCEPT ![t] = domain]
    /\ reg' = [reg EXCEPT ![t] = counters["num_cb"]]
    /\ pc' = [pc EXCEPT ![t] = "store_total"]
    /\ nInvoked' = nInvoked + 1
    /\ UNCHANGED counters
    /\ UnchangedButCounters

\* thread t stores num_cb and dispatches
CbStoreTotal(t) ==
    /\ pc[t] = "store_total"
    /\ counters' = [counters EXCEPT !["num_cb"] = reg[t] + 1]
    /\ pc' = [pc EXCEPT ![t] = IF cur[t] \in KnownDomains THEN "load_handler" ELSE "idle"]
    /\ UNCHANGED << reg, cur, nInvoked >>
    /\ UnchangedButCounters

\* thread t, in its handler, loads the handler's counter
HandlerLoad(t) ==
    /\ pc[t] = "load_handler"
    /\ reg' = [reg EXCEPT ![t] = counters[CounterOf(cur[t])]]
    /\ pc' = [pc EXCEPT ![t] = "store_handler"]
    /\ UNCHANGED << counters, cur, nInvoked >>
    /\ UnchangedButCounters

\* thread t stores the handler's counter; the handler then returns
HandlerStore(t) ==
    /\ pc[t] = "store_handler"
    /\ counters' = [counters EXCEPT ![CounterOf(cur[t])] = reg[t] + 1]
    /\ pc' = [pc EXCEPT ![t] = "idle"]
    /\ UNCHANGED << reg, cur, nInvoked >>
    /\ UnchangedButCounters

NextConc ==
    \/ Initialize
    \/ \E t \in Threads : CbLoadTotal(t)
    \/ \E t \in Threads : CbStoreTotal(t)
    \/ \E t \in Threads : HandlerLoad(t)
    \/ \E t \in Threads : HandlerStore(t)

SpecConc == Init /\ [][NextConc]_vars

-----------------------------------------------------------------------------
(* Properties *)

IsCb(domain, cbid) == lastCb.domain = domain /\ lastCb.cbid = cbid

IsApiCb(site) ==
    /\ lastCb.domain \in { RUNTIME_API, DRIVER_API }
    /\ lastCb.cbInfo.callbackSite = site

AttrsCreated == cupti_info.runtime_attr # InvalidAttr

FnAttr(domain) ==
    IF domain = RUNTIME_API THEN cupti_info.runtime_attr ELSE cupti_info.driver_attr

Positions(tr, e) == { i \in 1..Len(tr) : tr[i] = e }
PositionsOf(tr, op) == { i \in 1..Len(tr) : tr[i].op = op }

IsPush(e) == e.op = "push_snapshot"
IsHostCall(e) == e.op \in { "set", "begin", "end" }

Pushes(tr)    == SelectSeq(tr, IsPush)
HostCalls(tr) == SelectSeq(tr, IsHostCall)

LifecycleRecord(context, tag, size) ==
    PushSnapshot(<< Pair(cupti_info.device_attr,   UIntVariant(0)),
                    Pair(cupti_info.context_attr,  UIntVariant(context)),
                    Pair(cupti_info.resource_attr, StringVariant(tag, size)) >>)

\* C1: with sampling enabled, a context-created callback calls
\* enable_sampling_for_context(ctx) before it pushes the {device, context,
\* "create_context"} record; the record is pushed when id resolution succeeds.
C1_EnableBeforeCreateRecord ==
    (IsCb(RESOURCE, CONTEXT_CREATED) /\ event_sampling.enabled) =>
        LET ctx == lastCb.cbInfo.context
            en  == Positions(trace, EnableSampling(ctx))
        IN  /\ Cardinality(en) = 1
            /\ \A j \in PositionsOf(trace, "push_snapshot") :
                    /\ trace[j] = LifecycleRecord(ctx, "create_context", 15)
                    /\ \A i \in en : i < j
            /\ lastCb.cbInfo.ids = AllOk =>
                    Cardinality(PositionsOf(trace, "push_snapshot")) = 1

C1_Witness ==
    /\ IsCb(RESOURCE, CONTEXT_CREATED)
    /\ event_sampling.enabled
    /\ lastCb.cbInfo.ids = AllOk
    /\ lastCb.cbInfo.context \in event_sampling.monitored
    /\ Len(Pushes(trace)) = 1

\* C2: with sampling enabled, a context-destroy-starting callback pushes the
\* {device, context, "destroy_context"} record first and calls
\* disable_sampling_for_context(ctx) only after it.
C2_RecordBeforeDisable ==
    (IsCb(RESOURCE, CONTEXT_DESTROY_STARTING) /\ event_sampling.enabled) =>
        LET ctx == lastCb.cbInfo.context
            dis == Positions(trace, DisableSampling(ctx))
        IN  /\ dis # { }
            /\ \A j \in PositionsOf(trace, "push_snapshot") : \A i \in dis : j < i

OpenFunctionScope(e) ==
    e.by = "begin" /\ e.attr \in { cupti_info.runtime_attr, cupti_info.driver_attr }

\* C3: function-entry and function-exit callbacks balance in strict LIFO
\* order: every entry makes one begin and every exit one end on the domain's
\* function attribute, and the function scopes open in the host are exactly
\* the entered, not yet exited API calls, innermost last (none after the
\* last exit).
C3_FunctionScopesLifo ==
    /\ IsApiCb(API_ENTER) =>
          /\ Cardinality(PositionsOf(trace, "begin")) = 1
          /\ PositionsOf(trace, "end") = { }
          /\ \A i \in PositionsOf(trace, "begin") : trace[i].attr = FnAttr(lastCb.domain)
    /\ IsApiCb(API_EXIT) =>
          /\ PositionsOf(trace, "begin") = { }
          /\ AttrsCreated =>
                Cardinality(Positions(trace, End(FnAttr(lastCb.domain)))) = 1
    /\ AttrsCreated =>
          SelectSeq(host.entries, OpenFunctionScope)
            = [i \in 1..Len(apistack) |->
                  [attr |-> FnAttr(apistack[i].domain),
                   val  |-> StringVariant(apistack[i].functionName,
                                          Len(apistack[i].functionName)),
                   by   |-> "begin"]]

\* a driver call nested in a runtime call has just exited
C3_Witness ==
    /\ AttrsCreated
    /\ IsApiCb(API_EXIT)
    /\ lastCb.domain = DRIVER_API
    /\ Len(apistack) = 1
    /\ apistack[1].domain = RUNTIME_API
    /\ Len(SelectSeq(host.entries, OpenFunctionScope)) = 1

SymbolRecorded ==
    cupti_info.record_symbol /\ lastCb.cbInfo.symbolName # NULL

\* C4: an API enter/exit pair with record_symbol and a symbol name makes the
\* host calls set(symbol), begin(function) on entry and end(function),
\* end(symbol) on exit, in this order; without record_symbol or without a
\* symbol name it makes begin(function) and end(function) alone.
C4_SymbolCallOrder ==
    LET fn   == lastCb.cbInfo.functionName
        sym  == lastCb.cbInfo.symbolName
        attr == FnAttr(lastCb.domain)
    IN  /\ IsApiCb(API_ENTER) =>
              HostCalls(trace) =
                  IF SymbolRecorded
                  THEN << Set(cupti_info.symbol_attr, StringVariant(sym, Len(sym))),
                          Begin(attr, StringVariant(fn, Len(fn))) >>
                  ELSE << Begin(attr, StringVariant(fn, Len(fn))) >>
        /\ IsApiCb(API_EXIT) =>
              HostCalls(trace) =
                  IF SymbolRecorded
                  THEN << End(attr), End(cupti_info.symbol_attr) >>
                  ELSE << End(attr) >>

\* the exit of a runtime call that carried a symbol, after its entry set it
C4_Witness ==
    /\ AttrsCreated
    /\ IsApiCb(API_EXIT)
    /\ lastCb.domain = RUNTIME_API
    /\ SymbolRecorded
    /\ counters["num_api_cb"] = 2
    /\ host.entries = << >>
    /\ host.unmatched = 0

\* C5: on a function exit, end(symbol), if issued, is issued before
\* end(function attribute).
C5_SymbolEndPrecedes ==
    (IsApiCb(API_EXIT) /\ AttrsCreated) =>
        \A i \in Positions(trace, End(cupti_info.symbol_attr)) :
            \A j \in Positions(trace, End(FnAttr(lastCb.domain))) : i < j

\* C5 as amended: on a function exit, end(function attribute) is the first
\* host call, and end(symbol), if issued, follows it.
C5_SymbolEndFollows ==
    IsApiCb(API_EXIT) =>
        LET hc == HostCalls(trace)
        IN  /\ Len(hc) >= 1
            /\ hc[1] = End(FnAttr(lastCb.domain))
            /\ \A i \in 2..Len(hc) : hc[i] = End(cupti_info.symbol_attr)

C5_Witness ==
    /\ AttrsCreated
    /\ IsApiCb(API_EXIT)
    /\ SymbolRecorded
    /\ Len(HostCalls(trace)) = 2

IsStreamEvent ==
    \/ IsCb(RESOURCE, STREAM_CREATED)
    \/ IsCb(RESOURCE, STREAM_DESTROY_STARTING)
    \/ IsCb(SYNCHRONIZE, STREAM_SYNCHRONIZED)

StreamTag ==
    CASE IsCb(RESOURCE, STREAM_CREATED) ->
            Pair(cupti_info.resource_attr, StringVariant("create_stream", 14))
      [] IsCb(RESOURCE, STREAM_DESTROY_STARTING) ->
            Pair(cupti_info.resource_attr, StringVariant("destroy_stream", 15))
      [] IsCb(SYNCHRONIZE, STREAM_SYNCHRONIZED) ->
            Pair(cupti_info.sync_attr, StringVariant("stream", 7))

\* C6: a stream event pushes exactly one record, of the 4 pairs device,
\* context, stream, tag in this order, when the three id resolutions succeed,
\* and no record at all when one of them fails.
C6_StreamRecord ==
    IsStreamEvent =>
        Pushes(trace) =
            IF lastCb.cbInfo.ids.device /\ lastCb.cbInfo.ids.context
                  /\ lastCb.cbInfo.ids.stream
            THEN << PushSnapshot(
                      << Pair(cupti_info.device_attr,  UIntVariant(0)),
                         Pair(cupti_info.context_attr, UIntVariant(lastCb.cbInfo.context)),
                         Pair(cupti_info.stream_attr,  UIntVariant(lastCb.cbInfo.stream)),
                         StreamTag >>) >>
            ELSE << >>

C6_Witness ==
    /\ AttrsCreated
    /\ IsCb(SYNCHRONIZE, STREAM_SYNCHRONIZED)
    /\ lastCb.cbInfo.ids = AllOk
    /\ Len(Pushes(trace)) = 1
    /\ Len(Pushes(trace)[1].rec) = 4

HandlerAttrs(domain) ==
    CASE domain = RUNTIME_API -> { cupti_info.runtime_attr, cupti_info.symbol_attr }
      [] domain = DRIVER_API  -> { cupti_info.driver_attr, cupti_info.symbol_attr }
      [] domain = NVTX        -> { cupti_info.nvtx_range_attr }
      [] domain = RESOURCE    -> { cupti_info.resource_attr }
      [] domain = SYNCHRONIZE -> { cupti_info.sync_attr }
      [] OTHER                -> { }

\* the attribute a call of a handler is about: the tag's, for a record
SubjectAttr(e) == IF IsPush(e) THEN e.rec[Len(e.rec)].attr ELSE e.attr

\* C7: every invocation of the router adds one to num_cb and one to the
\* counter of the handler of its domain, and to no other counter, and the
\* calls it makes are that handler's; for an unrecognized domain only num_cb
\* changes and no record is pushed and no attribute touched.
C7_DispatchOneHandler ==
    [][ nInvoked' = nInvoked + 1 =>
          LET d == lastCb'.domain
          IN  /\ d \in KnownDomains =>
                    /\ counters' = [counters EXCEPT !["num_cb"] = @ + 1,
                                                    ![CounterOf(d)] = @ + 1]
                    /\ \A i \in 1..Len(trace') :
                          (IsPush(trace'[i]) \/ IsHostCall(trace'[i])) =>
                              SubjectAttr(trace'[i]) \in HandlerAttrs(d)
              /\ d \notin KnownDomains =>
                    /\ counters' = [counters EXCEPT !["num_cb"] = @ + 1]
                    /\ host' = host
                    /\ event_sampling' = event_sampling
                    /\ \A i \in 1..Len(trace') : trace'[i].op \in { "inc", "log" }
      ]_vars

C7_Witness ==
    /\ lastCb.domain = OTHER_DOMAIN
    /\ nInvoked >= 2
    /\ counters["num_cb"] = nInvoked
    /\ counters["num_api_cb"] + counters["num_resource_cb"]
         + counters["num_sync_cb"] + counters["num_nvtx_cb"] = nInvoked - 1

\* C8: once all concurrent invocations of the router have returned, num_cb
\* has grown by the number of invocations.
C8_NoLostUpdate ==
    AllIdle => counters["num_cb"] = nInvoked

DomainTokens == { "runtime", "driver", "resource", "sync", "nvtx" }

TokenDomain(token) ==
    CASE token = "runtime"  -> RUNTIME_API
      [] token = "driver"   -> DRIVER_API
      [] token = "resource" -> RESOURCE
      [] token = "sync"     -> SYNCHRONIZE
      [] token = "nvtx"     -> NVTX

RecognizedDomains(names) ==
    { TokenDomain(names[i]) : i \in { k \in 1..Len(names) : names[k] \in DomainTokens } }

Registered == "finish" \in hooks

\* C9: with sampling enabled and no "resource" token configured, "resource"
\* is added to the list, and a registered service has enabled the recognized
\* configured domains plus resource; without sampling it has enabled exactly
\* the recognized configured domains.
C9_ForcedResource ==
    /\ vendor.subscribed =>
          cb_domain_names =
              IF event_sampling.enabled /\ ~Contains(config.callback_domains, "resource")
              THEN Append(config.callback_domains, "resource")
              ELSE config.callback_domains
    /\ (vendor.subscribed /\ Registered) =>
          vendor.enabled =
              RecognizedDomains(config.callback_domains)
              \cup (IF event_sampling.enabled THEN { RESOURCE } ELSE { })
    /\ phase # "loaded" => (event_sampling.enabled <=> config.sample_event_id > 0)

C9_Witness ==
    /\ config.callback_domains = << "sync" >>
    /\ config.sample_event_id = 42
    /\ Registered
    /\ vendor.enabled = { SYNCHRONIZE, RESOURCE }

IsUnknownToken(token) == token \notin DomainTokens \cup { "none" }

NoVendorFailure(tr) ==
    \A i \in 1..Len(tr) :
        tr[i].op \in { "cuptiSubscribe", "cuptiEnableDomain" } => tr[i].ok

\* C10: each of runtime, driver, resource, sync, nvtx enables its own domain
\* and "none" enables nothing; any other token is warned about and enables
\* nothing, and initialization goes on to register the service unless a
\* vendor call fails.
C10_TokenResolution ==
    /\ vendor.subscribed =>
          /\ vendor.enabled \subseteq RecognizedDomains(cb_domain_names)
          /\ \A i \in 1..Len(warned) : IsUnknownToken(warned[i])
    /\ (vendor.subscribed /\ Registered) =>
          /\ vendor.enabled = RecognizedDomains(cb_domain_names)
          /\ warned = SelectSeq(cb_domain_names, IsUnknownToken)
    /\ (phase = "initialized" /\ NoVendorFailure(trace)) => Registered

C10_Witness ==
    /\ config.callback_domains = << "bogus", "nvtx" >>
    /\ phase = "initialized"
    /\ Registered
    /\ vendor.enabled = { NVTX }
    /\ warned = << "bogus" >>

IsVendorCall(e) == e.op \in { "cuptiSubscribe", "cuptiEnableDomain" }

VendorCalls(tr) == SelectSeq(tr, IsVendorCall)

\* C11: when cuptiSubscribe or a cuptiEnableDomain fails, initialization
\* returns with no host hook connected and with no vendor call made after the
\* failing one, so the domains enabled are those enabled before it.
C11_FailureAbortsRegistration ==
    /\ (phase = "initialized" /\ ~NoVendorFailure(trace)) =>
          LET vc == VendorCalls(trace)
          IN  /\ hooks = { }
              /\ ~vc[Len(vc)].ok
              /\ \A i \in 1..(Len(vc) - 1) : vc[i].ok
              /\ vendor.subscribed = vc[1].ok
              /\ vendor.enabled = { vc[i].domain : i \in 2..(Len(vc) - 1) }
    /\ hooks = { } => phase \in { "loaded", "initialized" }

\* enabling the first of two requested domains failed
C11_Witness ==
    /\ phase = "initialized"
    /\ config.callback_domains = << "runtime", "sync" >>
    /\ config.sample_event_id = 0
    /\ vendor.subscribed
    /\ vendor.enabled = { }
    /\ hooks = { }
    /\ ~NoVendorFailure(trace)

\* C12: finish calls stop_all() exactly once, whatever the verbosity and the
\* sampling state, before cuptiUnsubscribe; the diagnostic output, if any,
\* comes before stop_all().
C12_StopAllOnceBeforeUnsubscribe ==
    /\ phase = "finished" =>
          /\ Cardinality(Positions(trace, StopAll)) = 1
          /\ Cardinality(Positions(trace, Unsubscribe)) = 1
          /\ \A i \in Positions(trace, StopAll) :
                /\ \A j \in Positions(trace, Unsubscribe) : i < j
                /\ \A j \in PositionsOf(trace, "log") \cup PositionsOf(trace, "print_statistics") :
                      j < i
          /\ event_sampling.stops = 1
          /\ event_sampling.monitored = { }
          /\ ~vendor.subscribed
    /\ phase # "finished" => event_sampling.stops = 0

\* finish with diagnostics on, after a resource callback with sampling enabled
C12_Witness ==
    /\ phase = "finished"
    /\ event_sampling.enabled
    /\ counters["num_resource_cb"] >= 1
    /\ PositionsOf(trace, "log") # { }
    /\ PositionsOf(trace, "print_statistics") # { }
    /\ event_sampling.stops = 1

\* C13: with sampling enabled, a context is monitored exactly from the
\* handling of its context-created event to the handling of its
\* context-destroy-starting event or to stop_all at finish: no context is
\* monitored at the start, and the flag changes at these events only.
C13_MonitoredBetweenCreateAndDestroy ==
    /\ event_sampling.monitored = { }
    /\ [][ event_sampling'.enabled =>
             \A c \in Contexts :
                LET cb      == /\ nInvoked' = nInvoked + 1
                               /\ lastCb'.domain = RESOURCE
                               /\ lastCb'.cbInfo.context = c
                    create  == cb /\ lastCb'.cbid = CONTEXT_CREATED
                    destroy == cb /\ lastCb'.cbid = CONTEXT_DESTROY_STARTING
                    fin     == phase # "finished" /\ phase' = "finished"
                IN  (c \in event_sampling'.monitored) =
                        IF create THEN TRUE
                        ELSE IF destroy \/ fin THEN FALSE
                        ELSE c \in event_sampling.monitored
       ]_vars

\* context 2 was created and has just been destroyed while context 1 lives on
C13_Witness ==
    /\ event_sampling.enabled
    /\ IsCb(RESOURCE, CONTEXT_DESTROY_STARTING)
    /\ lastCb.cbInfo.context = 2
    /\ counters["num_resource_cb"] = 3
    /\ nInvoked = 3
    /\ event_sampling.monitored = { 1 }

\* C14: a disable_sampling_for_context issued for a context that is not
\* monitored (never enabled, or disabled before) and an
\* enable_sampling_for_context issued for a context that is monitored leave
\* the sampling state as it was, and the callback that issued the call runs
\* to its end.
C14_SamplingCallsIdempotent ==
    [][ \A c \in Contexts :
           /\ ( /\ DisableSampling(c) \in { trace'[i] : i \in 1..Len(trace') }
                /\ c \notin event_sampling.monitored )
              => /\ event_sampling' = event_sampling
                 /\ c \notin event_sampling'.monitored
                 /\ counters'["num_resource_cb"] = counters["num_resource_cb"] + 1
           /\ ( /\ EnableSampling(c) \in { trace'[i] : i \in 1..Len(trace') }
                /\ c \in event_sampling.monitored )
              => /\ event_sampling' = event_sampling
                 /\ c \in event_sampling'.monitored
                 /\ counters'["num_resource_cb"] = counters["num_resource_cb"] + 1
      ]_<<trace, event_sampling, nInvoked>>

\* the first callback of the run is the destroy of a context never created
C14_Witness ==
    /\ event_sampling.enabled
    /\ nInvoked = 1
    /\ IsCb(RESOURCE, CONTEXT_DESTROY_STARTING)
    /\ DisableSampling(lastCb.cbInfo.context) \in { trace[i] : i \in 1..Len(trace) }
    /\ event_sampling.monitored = { }

\* C15: each of the three push-style annotation callbacks begins nvtx.range
\* with the marker text stored with length len(text) + 1, while the function
\* name and symbol values of the API-call handler are stored with length
\* len(text).
C15_StoredLengths ==
    /\ (lastCb.domain = NVTX /\ lastCb.cbid \in NvtxPushCbids) =>
          HostCalls(trace) =
             << Begin(cupti_info.nvtx_range_attr,
                      StringVariant(lastCb.cbInfo.message,
                                    Len(lastCb.cbInfo.message) + 1)) >>
    /\ IsApiCb(API_ENTER) =>
          \A i \in PositionsOf(trace, "begin") \cup PositionsOf(trace, "set") :
             /\ trace[i].val.type = "string"
             /\ trace[i].val.size = Len(trace[i].val.data)
             /\ trace[i].val.data = IF trace[i].op = "begin"
                                       THEN lastCb.cbInfo.functionName
                                       ELSE lastCb.cbInfo.symbolName

\* a domain-scoped push inside an API call that recorded its symbol
C15_Witness ==
    /\ IsCb(NVTX, DomainRangePushEx)
    /\ AttrsCreated
    /\ Len(host.entries) = 3
    /\ host.entries[1].by = "set" /\ host.entries[1].val.size = 4
    /\ host.entries[2].by = "begin" /\ host.entries[2].val.size = 5
    /\ host.entries[3].attr = cupti_info.nvtx_range_attr
    /\ host.entries[3].val.size = 4

\* positions of the open nvtx.range scopes in the host
NvtxOpen == { i \in 1..Len(host.entries) :
                 host.entries[i].attr = cupti_info.nvtx_range_attr }

C18_SymbolEndFindsValue ==
    [][ ( /\ nInvoked' = nInvoked + 1
          /\ lastCb'.domain \in { RUNTIME_API, DRIVER_API }
          /\ lastCb'.cbInfo.callbackSite = API_EXIT
          /\ AttrsCreated
          /\ cupti_info.record_symbol
          /\ Positions(trace', End(cupti_info.symbol_attr)) # { } )
        => \E i \in 1..Len(host.entries) :
               host.entries[i].attr = cupti_info.symbol_attr
      ]_vars

\* C19: a callback that pushes a record or calls set/begin/end is processed
\* only after post_init_cb has created the attribute keys.
C19_AttributesExistBeforeUse ==
    (lastCb # NoCb /\ \E i \in 1..Len(trace) : IsHostCall(trace[i]) \/ IsPush(trace[i]))
        => /\ phase \in { "post_init", "finished" }
           /\ \A f \in DOMAIN AttributeNames : cupti_info[f] # InvalidAttr

\* C20: after a registration that failed (no hook connected, C11) the vendor
\* holds no subscription and no enabled domain of the service, and no
\* callback reaches cupti_callback.
C20_FailedRegistrationReleasesVendor ==
    (phase = "initialized" /\ hooks = { })
        => /\ ~vendor.subscribed
           /\ vendor.enabled = { }
           /\ nInvoked = 0

\* C21: with sampling enabled, a context-created or context-destroy-starting
\* callback makes its one enable or disable call for the context whether or
\* not the device and context ids resolve: when one of them fails no record
\* is pushed (one is pushed otherwise), and in both cases the context is
\* monitored after a create and not monitored after a destroy, every other
\* context keeping its flag.
C21_SamplingCallDespiteIdFailure ==
    [][ ( /\ nInvoked' = nInvoked + 1
          /\ lastCb'.domain = RESOURCE
          /\ lastCb'.cbid \in { CONTEXT_CREATED, CONTEXT_DESTROY_STARTING }
          /\ event_sampling.enabled )
        => LET c      == lastCb'.cbInfo.context
               ids    == lastCb'.cbInfo.ids
               failed == ~ids.device \/ ~ids.context
               call   == IF lastCb'.cbid = CONTEXT_CREATED
                            THEN EnableSampling(c) ELSE DisableSampling(c)
               sampling == PositionsOf(trace', "enable_sampling_for_context")
                           \cup PositionsOf(trace', "disable_sampling_for_context")
           IN  /\ Cardinality(sampling) = 1
               /\ \A i \in sampling : trace'[i] = call
               /\ Len(Pushes(trace')) = IF failed THEN 0 ELSE 1
               /\ event_sampling'.monitored =
                     IF lastCb'.cbid = CONTEXT_CREATED
                        THEN event_sampling.monitored \cup { c }
                        ELSE event_sampling.monitored \ { c }
      ]_vars

\* the first callback is a context-created whose device id does not resolve
C21_Witness ==
    /\ event_sampling.enabled
    /\ nInvoked = 1
    /\ IsCb(RESOURCE, CONTEXT_CREATED)
    /\ ~lastCb.cbInfo.ids.device
    /\ Pushes(trace) = << >>
    /\ event_sampling.monitored = { lastCb.cbInfo.context }

====
